---- MODULE Spec2Model ----
(***************************************************************************)
(* A model of the seqlock crate (src/src/lib.rs): a SeqLock<T> shared by   *)
(* several threads.  Every atomic load or store of the sequence counter,   *)
(* every gate (parking_lot Mutex) operation and every word of a copy of    *)
(* or a store to the data cell is one step; steps of different threads     *)
(* interleave freely (sequentially consistent memory: the fences of        *)
(* lines 141 and 162 and the acquire/release orderings of lines 90 and 121 *)
(* keep each thread's steps in program order).  T is a value of NWords     *)
(* words; the unsynchronised read_volatile of line 136 copies it word by   *)
(* word, so a copy that races with a writer may mix words of several       *)
(* values.                                                                 *)
(***************************************************************************)
EXTENDS Integers, FiniteSets

\* ------------------------------------------------------------- bounds
\* Writes begun in a behaviour of Spec; fewer than 2^(SeqBits-1), so that the
\* counter does not come back to a value a read() in progress has loaded.
MaxWrites == 3
\* Width of the sequence counter (usize, scaled down).
SeqBits == 3

\* The threads sharing the SeqLock.
Threads == {1, 2}
NoThread == 0
\* T is two words of one bit each: the least that a copy can tear.
Words == {1, 2}
NWords == Cardinality(Words)
Vals == {0, 1}
\* The values of T.
T == [Words -> Vals]
SeqMod == 2 ^ SeqBits
SeqVals == 0..(SeqMod - 1)

VARIABLES
    seq,        \* SeqLock.seq
    data,       \* SeqLock.data
    mutex,      \* SeqLock.mutex: the thread holding it, or NoThread
    pc,         \* where each thread is
    guard,      \* guard[t]: thread t owns a live SeqLockGuard
    gseq,       \* begin_write's local seq, then SeqLockGuard.seq
    seq1,       \* read(): seq1
    seq2,       \* read(): seq2
    result,     \* read(): result
    idx,        \* read(): next word of the copy
    \* history variables (not read by any action's guard)
    committed,  \* the initial value and every value the cell held at an end_write
    commit,     \* the last of them
    window,     \* window[t]: values that were `commit` at some instant of t's read()
    wlive,      \* wlive[t]: "open" while a guard that was live when t called read()
                \* has not run end_write, "ended" once it has, "no" if there was none
    dirty,      \* dirty[t]: a guard was live at some instant of t's read()
    tryRec,     \* tryRec[t]: t's last try_lock_write and the state it was called in
    done,       \* the number of end_write calls so far, modulo 2^(SeqBits-1)
    lapped,     \* lapped[t]: since the seq1 load of t's pass the counter has been
                \* stored to and has come back to seq1
    lastSet,    \* the value last assigned through get_mut, until the next write
    inner       \* what into_inner returned

vars == <<seq, data, mutex, pc, guard, gseq, seq1, seq2, result, idx,
          committed, commit, window, wlive, dirty, tryRec, done, lapped,
          lastSet, inner>>

shared == <<seq, data, mutex>>
readLocals == <<seq1, seq2, result, idx>>
history == <<committed, commit, window, wlive, dirty, tryRec, done, lapped,
             lastSet, inner>>
owned == <<lastSet, inner>>

\* A faulty wrapping_add: the sum stops at the largest counter value.
saturating_add(x, y) == IF x + y >= SeqMod THEN SeqMod - 1 ELSE x + y

\* ------------------------------------------------------------ helpers
wrapping_add(x, y) == (x + y) % SeqMod

Odd(s) == s % 2 # 0

IdlePcs == {"idle", "r_ret", "tl_none"}
ReadPcs == {"r_seq1", "r_yield", "r_copy", "r_seq2"}
AcquirePcs == {"bw_load", "bw_store"}
UnlockPcs == {"drop_unlock", "unwind_unlock"}

ZeroVal == [w \in Words |-> 0]
NoTry == [res |-> "na", live |-> FALSE, acq |-> FALSE]
\* No value of T.
NoVal == <<>>

\* A SeqLockGuard exists (constructed, not yet fully destroyed).
GuardLive == \E u \in Threads : guard[u]
\* A guard whose end_write has not run.
WriteOpen == \E u \in Threads : guard[u] /\ pc[u] \notin UnlockPcs
\* A thread holds the gate and is inside lock_guard, its guard not yet built.
Acquiring == \E u \in Threads : pc[u] \in AcquirePcs

\* Writes begun so far (the counter has not wrapped) plus the calls under way.
WritesClaimed ==
    ((seq + 1) \div 2)
    + Cardinality({u \in Threads : pc[u] \in {"lw_lock", "bw_load", "bw_store"}})
CanStartWrite == WritesClaimed < MaxWrites

\* A store of s to the counter brings it back to the seq1 of t's pass.
Laps(t, s) == pc[t] \in {"r_copy", "r_seq2"} /\ s = seq1[t]

\* No thread holds a reference to the SeqLock or a guard borrowed from it: its
\* owner can borrow it mutably (&mut self) or move it (self).
Exclusive == \A t \in Threads : pc[t] \in IdlePcs \cup {"dead"} /\ ~guard[t]

\* f with the entry of thread t set back to its initial value d: a local of a
\* call that has returned, or a record of it, is gone when the next call starts.
Reset(f, t, d) == [f EXCEPT ![t] = d]

\* SeqLock::new(val)
Init ==
    /\ seq = 0
    /\ data \in T
    /\ mutex = NoThread
    /\ pc = [t \in Threads |-> "idle"]
    /\ guard = [t \in Threads |-> FALSE]
    /\ gseq = [t \in Threads |-> 0]
    /\ seq1 = [t \in Threads |-> 0]
    /\ seq2 = [t \in Threads |-> 0]
    /\ result = [t \in Threads |-> ZeroVal]
    /\ idx = [t \in Threads |-> 1]
    /\ committed = {data}
    /\ commit = data
    /\ window = [t \in Threads |-> {}]
    /\ wlive = [t \in Threads |-> "no"]
    /\ dirty = [t \in Threads |-> FALSE]
    /\ tryRec = [t \in Threads |-> NoTry]
    /\ done = 0
    /\ lapped = [t \in Threads |-> FALSE]
    /\ lastSet = NoVal
    /\ inner = NoVal

\* --------------------------------------------------------------- read
\* A thread calls read().
ReadCall(t) ==
    /\ pc[t] \in IdlePcs
    /\ pc' = [pc EXCEPT ![t] = "r_seq1"]
    /\ seq1' = [seq1 EXCEPT ![t] = 0]
    /\ seq2' = [seq2 EXCEPT ![t] = 0]
    /\ result' = [result EXCEPT ![t] = ZeroVal]
    /\ idx' = [idx EXCEPT ![t] = 1]
    /\ window' = [window EXCEPT ![t] = {commit}]
    /\ wlive' = [wlive EXCEPT ![t] = IF WriteOpen THEN "open" ELSE "no"]
    /\ dirty' = [dirty EXCEPT ![t] = WriteOpen]
    /\ tryRec' = Reset(tryRec, t, NoTry)
    /\ lapped' = Reset(lapped, t, FALSE)
    /\ UNCHANGED <<shared, guard, gseq, committed, commit, done, owned>>

\* A faulty ReadSeq1: the parity of seq1 is not tested.
ReadSeq1NoParity(t) ==
    /\ pc[t] = "r_seq1"
    /\ seq1' = [seq1 EXCEPT ![t] = seq]
    /\ idx' = [idx EXCEPT ![t] = 1]
    /\ pc' = [pc EXCEPT ![t] = "r_copy"]
    /\ lapped' = Reset(lapped, t, FALSE)
    /\ UNCHANGED <<shared, guard, gseq, seq2, result, committed, commit, window,
                   wlive, dirty, tryRec, done, owned>>

\* let seq1 = self.seq.load(Acquire); if seq1 & 1 != 0 { yield_now(); continue }
ReadSeq1(t) ==
    /\ pc[t] = "r_seq1"
    /\ seq1' = [seq1 EXCEPT ![t] = seq]
    /\ idx' = [idx EXCEPT ![t] = 1]
    /\ pc' = [pc EXCEPT ![t] = IF Odd(seq) THEN "r_yield" ELSE "r_copy"]
    /\ lapped' = Reset(lapped, t, FALSE)
    /\ UNCHANGED <<shared, guard, gseq, seq2, result, committed, commit, window,
                   wlive, dirty, tryRec, done, owned>>

\* A faulty ReadYield: the reader waits for the gate to be free.
ReadYieldWaitsForGate(t) ==
    /\ pc[t] = "r_yield"
    /\ mutex = NoThread
    /\ pc' = [pc EXCEPT ![t] = "r_seq1"]
    /\ seq1' = [seq1 EXCEPT ![t] = 0]
    /\ UNCHANGED <<shared, guard, gseq, seq2, result, idx, history>>

\* thread::yield_now(); continue
ReadYield(t) ==
    /\ pc[t] = "r_yield"
    /\ pc' = [pc EXCEPT ![t] = "r_seq1"]
    /\ seq1' = [seq1 EXCEPT ![t] = 0]
    /\ UNCHANGED <<shared, guard, gseq, seq2, result, idx, history>>

\* A faulty ReadCopy: every word of the copy is read from the first word.
ReadCopyFirstWord(t) ==
    /\ pc[t] = "r_copy"
    /\ result' = [result EXCEPT ![t][idx[t]] = data[1]]
    /\ idx' = [idx EXCEPT ![t] = idx[t] + 1]
    /\ pc' = [pc EXCEPT ![t] = IF idx[t] = NWords THEN "r_seq2" ELSE "r_copy"]
    /\ UNCHANGED <<shared, guard, gseq, seq1, seq2, history>>

\* ptr::read_volatile(self.data.get()), one word at a time
ReadCopy(t) ==
    /\ pc[t] = "r_copy"
    /\ result' = [result EXCEPT ![t][idx[t]] = data[idx[t]]]
    /\ idx' = [idx EXCEPT ![t] = idx[t] + 1]
    /\ pc' = [pc EXCEPT ![t] = IF idx[t] = NWords THEN "r_seq2" ELSE "r_copy"]
    /\ UNCHANGED <<shared, guard, gseq, seq1, seq2, history>>

\* A faulty ReadSeq2: the copy is returned when seq2 is at least seq1.
ReadSeq2AtLeast(t) ==
    /\ pc[t] = "r_seq2"
    /\ IF seq1[t] <= seq
         THEN /\ pc' = [pc EXCEPT ![t] = "r_ret"]
              /\ seq2' = [seq2 EXCEPT ![t] = seq]
              /\ UNCHANGED <<seq1, result, idx>>
         ELSE /\ pc' = [pc EXCEPT ![t] = "r_seq1"]
              /\ seq1' = [seq1 EXCEPT ![t] = 0]
              /\ seq2' = [seq2 EXCEPT ![t] = 0]
              /\ result' = [result EXCEPT ![t] = ZeroVal]
              /\ idx' = [idx EXCEPT ![t] = 1]
    /\ UNCHANGED <<shared, guard, gseq, history>>

\* A faulty ReadSeq2: the copy is returned without comparing seq1 and seq2.
ReadSeq2NoRecheck(t) ==
    /\ pc[t] = "r_seq2"
    /\ pc' = [pc EXCEPT ![t] = "r_ret"]
    /\ seq2' = [seq2 EXCEPT ![t] = seq]
    /\ UNCHANGED <<shared, guard, gseq, seq1, result, idx, history>>

\* A faulty ReadSeq2: the comparison is inverted.
ReadSeq2Inverted(t) ==
    /\ pc[t] = "r_seq2"
    /\ IF seq1[t] # seq
         THEN /\ pc' = [pc EXCEPT ![t] = "r_ret"]
              /\ seq2' = [seq2 EXCEPT ![t] = seq]
              /\ UNCHANGED <<seq1, result, idx>>
         ELSE /\ pc' = [pc EXCEPT ![t] = "r_seq1"]
              /\ seq1' = [seq1 EXCEPT ![t] = 0]
              /\ seq2' = [seq2 EXCEPT ![t] = 0]
              /\ result' = [result EXCEPT ![t] = ZeroVal]
              /\ idx' = [idx EXCEPT ![t] = 1]
    /\ UNCHANGED <<shared, guard, gseq, history>>

\* A faulty ReadSeq2: the pass returns when the second load is even.
ReadSeq2ParityOnly(t) ==
    /\ pc[t] = "r_seq2"
    /\ IF ~Odd(seq)
         THEN /\ pc' = [pc EXCEPT ![t] = "r_ret"]
              /\ seq2' = [seq2 EXCEPT ![t] = seq]
              /\ UNCHANGED <<seq1, result, idx>>
         ELSE /\ pc' = [pc EXCEPT ![t] = "r_seq1"]
              /\ seq1' = [seq1 EXCEPT ![t] = 0]
              /\ seq2' = [seq2 EXCEPT ![t] = 0]
              /\ result' = [result EXCEPT ![t] = ZeroVal]
              /\ idx' = [idx EXCEPT ![t] = 1]
    /\ UNCHANGED <<shared, guard, gseq, history>>

\* let seq2 = self.seq.load(Relaxed); if seq1 == seq2 { return result }
ReadSeq2(t) ==
    /\ pc[t] = "r_seq2"
    /\ IF seq1[t] = seq
         THEN /\ pc' = [pc EXCEPT ![t] = "r_ret"]
              /\ seq2' = [seq2 EXCEPT ![t] = seq]
              /\ UNCHANGED <<seq1, result, idx>>
         ELSE \* the pass's locals go out of scope
              /\ pc' = [pc EXCEPT ![t] = "r_seq1"]
              /\ seq1' = [seq1 EXCEPT ![t] = 0]
              /\ seq2' = [seq2 EXCEPT ![t] = 0]
              /\ result' = [result EXCEPT ![t] = ZeroVal]
              /\ idx' = [idx EXCEPT ![t] = 1]
    /\ UNCHANGED <<shared, guard, gseq, history>>

\* -------------------------------------------------------------- write
\* A thread calls lock_write(): it is now waiting in self.mutex.lock().
LockWriteCall(t) ==
    /\ pc[t] \in IdlePcs
    /\ pc' = [pc EXCEPT ![t] = "lw_lock"]
    /\ tryRec' = Reset(tryRec, t, NoTry)
    /\ seq1' = Reset(seq1, t, 0)
    /\ seq2' = Reset(seq2, t, 0)
    /\ result' = Reset(result, t, ZeroVal)
    /\ idx' = Reset(idx, t, 1)
    /\ window' = Reset(window, t, {})
    /\ wlive' = Reset(wlive, t, "no")
    /\ dirty' = Reset(dirty, t, FALSE)
    /\ lapped' = Reset(lapped, t, FALSE)
    /\ UNCHANGED <<shared, guard, gseq, committed, commit, done, owned>>

\* A faulty MutexLock: the writer also waits until no read() is in progress.
MutexLockWaitsForReaders(t) ==
    /\ pc[t] = "lw_lock"
    /\ mutex = NoThread
    /\ \A u \in Threads : pc[u] \notin ReadPcs
    /\ mutex' = t
    /\ pc' = [pc EXCEPT ![t] = "bw_load"]
    /\ UNCHANGED <<seq, data, guard, gseq, readLocals, history>>

\* A faulty MutexLock: the gate is taken whether or not it is held.
MutexLockNoWait(t) ==
    /\ pc[t] = "lw_lock"
    /\ mutex' = t
    /\ pc' = [pc EXCEPT ![t] = "bw_load"]
    /\ UNCHANGED <<seq, data, guard, gseq, readLocals, history>>

\* self.mutex.lock() returns.
MutexLock(t) ==
    /\ pc[t] = "lw_lock"
    /\ mutex = NoThread
    /\ mutex' = t
    /\ pc' = [pc EXCEPT ![t] = "bw_load"]
    /\ UNCHANGED <<seq, data, guard, gseq, readLocals, history>>

\* A faulty TryLockWrite: the attempt fails whether or not the gate is held.
TryLockWriteFails(t) ==
    /\ pc[t] \in IdlePcs
    /\ pc' = [pc EXCEPT ![t] = "tl_none"]
    /\ tryRec' = [tryRec EXCEPT ![t] =
                    [res |-> "none", live |-> GuardLive, acq |-> Acquiring]]
    /\ seq1' = Reset(seq1, t, 0)
    /\ seq2' = Reset(seq2, t, 0)
    /\ result' = Reset(result, t, ZeroVal)
    /\ idx' = Reset(idx, t, 1)
    /\ window' = Reset(window, t, {})
    /\ wlive' = Reset(wlive, t, "no")
    /\ dirty' = Reset(dirty, t, FALSE)
    /\ lapped' = Reset(lapped, t, FALSE)
    /\ UNCHANGED <<shared, guard, gseq, committed, commit, done, owned>>

\* self.mutex.try_lock().map(|g| self.lock_guard(g))
TryLockWrite(t) ==
    /\ pc[t] \in IdlePcs
    /\ IF mutex = NoThread
         THEN /\ mutex' = t
              /\ pc' = [pc EXCEPT ![t] = "bw_load"]
         ELSE /\ mutex' = mutex
              /\ pc' = [pc EXCEPT ![t] = "tl_none"]
    /\ tryRec' = [tryRec EXCEPT ![t] =
                    [res |-> IF mutex = NoThread THEN "some" ELSE "none",
                     live |-> GuardLive, acq |-> Acquiring]]
    /\ seq1' = Reset(seq1, t, 0)
    /\ seq2' = Reset(seq2, t, 0)
    /\ result' = Reset(result, t, ZeroVal)
    /\ idx' = Reset(idx, t, 1)
    /\ window' = Reset(window, t, {})
    /\ wlive' = Reset(wlive, t, "no")
    /\ dirty' = Reset(dirty, t, FALSE)
    /\ lapped' = Reset(lapped, t, FALSE)
    /\ UNCHANGED <<seq, data, guard, gseq, committed, commit, done, owned>>

\* A faulty BeginWriteLoad: the loaded counter is captured without the + 1.
BeginWriteLoadNoBump(t) ==
    /\ pc[t] = "bw_load"
    /\ gseq' = [gseq EXCEPT ![t] = seq]
    /\ pc' = [pc EXCEPT ![t] = "bw_store"]
    /\ UNCHANGED <<shared, guard, readLocals, history>>

\* begin_write: let seq = self.seq.load(Relaxed).wrapping_add(1)
BeginWriteLoad(t) ==
    /\ pc[t] = "bw_load"
    /\ gseq' = [gseq EXCEPT ![t] = wrapping_add(seq, 1)]
    /\ pc' = [pc EXCEPT ![t] = "bw_store"]
    /\ UNCHANGED <<shared, guard, readLocals, history>>

\* A faulty BeginWriteStore: the guard is built without the counter store.
BeginWriteStoreSkipped(t) ==
    /\ pc[t] = "bw_store"
    /\ guard' = [guard EXCEPT ![t] = TRUE]
    /\ pc' = [pc EXCEPT ![t] = "idle"]
    /\ dirty' = [u \in Threads |-> IF pc[u] \in ReadPcs THEN TRUE ELSE dirty[u]]
    /\ tryRec' = Reset(tryRec, t, NoTry)
    /\ lastSet' = NoVal
    /\ UNCHANGED <<shared, gseq, readLocals, committed, commit, window, wlive,
                   done, lapped, inner>>

\* begin_write: self.seq.store(seq, Relaxed); lock_guard builds the guard.
BeginWriteStore(t) ==
    /\ pc[t] = "bw_store"
    /\ seq' = gseq[t]
    /\ guard' = [guard EXCEPT ![t] = TRUE]
    /\ pc' = [pc EXCEPT ![t] = "idle"]
    /\ dirty' = [u \in Threads |-> IF pc[u] \in ReadPcs THEN TRUE ELSE dirty[u]]
    /\ tryRec' = Reset(tryRec, t, NoTry)
    /\ lapped' = [u \in Threads |-> lapped[u] \/ Laps(u, gseq[t])]
    /\ lastSet' = NoVal
    /\ UNCHANGED <<data, mutex, gseq, readLocals, committed, commit, window,
                   wlive, done, inner>>

\* DerefMut: the guard's owner stores to one word of the cell.
GuardWrite(t) ==
    /\ pc[t] \in IdlePcs
    /\ guard[t]
    /\ \E w \in Words, v \in Vals :
          /\ data[w] # v
          /\ data' = [data EXCEPT ![w] = v]
    /\ UNCHANGED <<seq, mutex, pc, guard, gseq, readLocals, history>>

\* A faulty Panic: unwinding releases the gate without running end_write.
PanicSkipsEndWrite(t) ==
    /\ pc[t] \in IdlePcs
    /\ guard[t]
    /\ pc' = [pc EXCEPT ![t] = "unwind_unlock"]
    /\ UNCHANGED <<shared, guard, gseq, readLocals, history>>

\* A failure propagates out of the scope that owns the guard: unwinding starts.
Panic(t) ==
    /\ pc[t] \in IdlePcs
    /\ guard[t]
    /\ pc' = [pc EXCEPT ![t] = "unwind"]
    /\ UNCHANGED <<shared, guard, gseq, readLocals, history>>

\* A faulty EndWrite: end_write stores the captured seq without the + 1.
EndWriteStoresCaptured(t) ==
    /\ pc[t] \in IdlePcs \cup {"unwind"}
    /\ guard[t]
    /\ seq' = gseq[t]
    /\ pc' = [pc EXCEPT ![t] = IF pc[t] = "unwind" THEN "unwind_unlock"
                                                   ELSE "drop_unlock"]
    /\ committed' = committed \cup {data}
    /\ commit' = data
    /\ window' = [u \in Threads |->
                    IF pc[u] \in ReadPcs THEN window[u] \cup {data} ELSE window[u]]
    /\ wlive' = [u \in Threads |-> IF wlive[u] = "open" THEN "ended" ELSE wlive[u]]
    /\ tryRec' = Reset(tryRec, t, NoTry)
    /\ done' = (done + 1) % (SeqMod \div 2)
    /\ lapped' = [u \in Threads |-> lapped[u] \/ Laps(u, gseq[t])]
    /\ UNCHANGED <<data, mutex, guard, gseq, readLocals, dirty, owned>>

\* Drop for SeqLockGuard: self.seqlock.end_write(self.seq)
EndWrite(t) ==
    /\ pc[t] \in IdlePcs \cup {"unwind"}
    /\ guard[t]
    /\ seq' = wrapping_add(gseq[t], 1)
    /\ pc' = [pc EXCEPT ![t] = IF pc[t] = "unwind" THEN "unwind_unlock"
                                                   ELSE "drop_unlock"]
    /\ committed' = committed \cup {data}
    /\ commit' = data
    /\ window' = [u \in Threads |->
                    IF pc[u] \in ReadPcs THEN window[u] \cup {data} ELSE window[u]]
    /\ wlive' = [u \in Threads |-> IF wlive[u] = "open" THEN "ended" ELSE wlive[u]]
    /\ tryRec' = Reset(tryRec, t, NoTry)
    /\ done' = (done + 1) % (SeqMod \div 2)
    /\ lapped' = [u \in Threads |-> lapped[u] \/ Laps(u, wrapping_add(gseq[t], 1))]
    /\ UNCHANGED <<data, mutex, guard, gseq, readLocals, dirty, owned>>

\* The guard's field _guard: MutexGuard is dropped after Drop::drop returns.
MutexUnlock(t) ==
    /\ pc[t] \in UnlockPcs
    /\ mutex' = NoThread
    /\ guard' = [guard EXCEPT ![t] = FALSE]
    /\ pc' = [pc EXCEPT ![t] = IF pc[t] = "drop_unlock" THEN "idle" ELSE "dead"]
    /\ gseq' = Reset(gseq, t, 0)
    /\ UNCHANGED <<seq, data, readLocals, history>>

\* ---------------------------------------------------- exclusive owner
\* A faulty get_mut: the reference it hands out is to a copy of the value.
GetMutOnCopy ==
    /\ Exclusive
    /\ \E v \in T \ {data} : lastSet' = v
    /\ pc' = [t \in Threads |-> IF pc[t] = "dead" THEN "dead" ELSE "idle"]
    /\ seq1' = [t \in Threads |-> 0]
    /\ seq2' = [t \in Threads |-> 0]
    /\ result' = [t \in Threads |-> ZeroVal]
    /\ idx' = [t \in Threads |-> 1]
    /\ window' = [t \in Threads |-> {}]
    /\ wlive' = [t \in Threads |-> "no"]
    /\ dirty' = [t \in Threads |-> FALSE]
    /\ lapped' = [t \in Threads |-> FALSE]
    /\ tryRec' = [t \in Threads |-> NoTry]
    /\ UNCHANGED <<shared, guard, gseq, committed, commit, done, inner>>

\* *lock.get_mut() = v: the owner assigns through the mutable reference.  The
\* borrow ends every earlier call's borrow, so the threads' records are gone.
GetMut ==
    /\ Exclusive
    /\ \E v \in T \ {data} :
          /\ data' = v
          /\ commit' = v
          /\ committed' = committed \cup {v}
          /\ lastSet' = v
    /\ pc' = [t \in Threads |-> IF pc[t] = "dead" THEN "dead" ELSE "idle"]
    /\ seq1' = [t \in Threads |-> 0]
    /\ seq2' = [t \in Threads |-> 0]
    /\ result' = [t \in Threads |-> ZeroVal]
    /\ idx' = [t \in Threads |-> 1]
    /\ window' = [t \in Threads |-> {}]
    /\ wlive' = [t \in Threads |-> "no"]
    /\ dirty' = [t \in Threads |-> FALSE]
    /\ lapped' = [t \in Threads |-> FALSE]
    /\ tryRec' = [t \in Threads |-> NoTry]
    /\ UNCHANGED <<seq, mutex, guard, gseq, done, inner>>

\* A faulty into_inner: it returns a zeroed value instead of the cell's.
IntoInnerZeroed ==
    /\ Exclusive
    /\ inner' = ZeroVal
    /\ pc' = [t \in Threads |-> "gone"]
    /\ UNCHANGED <<shared, guard, gseq, readLocals, committed, commit, window,
                   wlive, dirty, tryRec, done, lapped, lastSet>>

\* lock.into_inner(): self.data.into_inner(); the SeqLock is gone.
IntoInner ==
    /\ Exclusive
    /\ inner' = data
    /\ pc' = [t \in Threads |-> "gone"]
    /\ UNCHANGED <<shared, guard, gseq, readLocals, committed, commit, window,
                   wlive, dirty, tryRec, done, lapped, lastSet>>

\* ------------------------------------------------------ specification
Next ==
    \E t \in Threads :
        \/ ReadCall(t)
        \/ ReadSeq1(t)
        \/ ReadYield(t)
        \/ ReadCopy(t)
        \/ ReadSeq2(t)
        \/ (CanStartWrite /\ LockWriteCall(t))
        \/ MutexLock(t)
        \/ (CanStartWrite /\ TryLockWrite(t))
        \/ BeginWriteLoad(t)
        \/ BeginWriteStore(t)
        \/ GuardWrite(t)
        \/ Panic(t)
        \/ EndWrite(t)
        \/ MutexUnlock(t)

Spec == Init /\ [][Next]_vars

ReaderStep(r) ==
    \/ ReadCall(r)
    \/ ReadSeq1(r)
    \/ ReadYield(r)
    \/ ReadCopy(r)
    \/ ReadSeq2(r)

\* The SeqLock is shared by the threads for a while, then owned exclusively
\* (get_mut), shared again, and in the end consumed (into_inner).
NextOwned ==
    \/ Next
    \/ GetMut
    \/ IntoInner

OwnedSpec == Init /\ [][NextOwned]_vars

\* One thread writes and every other thread only calls read(), again and again.
Writer == 1
Readers == Threads \ {Writer}

\* The steps from the writer's call of lock_write to its return.
LockWriteReturns ==
    \/ MutexLock(Writer)
    \/ BeginWriteLoad(Writer)
    \/ BeginWriteStore(Writer)

NextOneWriter ==
    \/ (CanStartWrite /\ LockWriteCall(Writer))
    \/ LockWriteReturns
    \/ GuardWrite(Writer)
    \/ EndWrite(Writer)
    \/ MutexUnlock(Writer)
    \/ \E r \in Readers : ReaderStep(r)

\* The writer thread is scheduled fairly; nothing is assumed of the readers.
OneWriterSpec == Init /\ [][NextOneWriter]_vars /\ WF_vars(LockWriteReturns)

\* The threads read and write through lock_write, at most MaxWrites times.
\* Every thread inside read() is scheduled fairly; nothing is assumed of the
\* threads that write.
NextFairRead ==
    \E t \in Threads :
        \/ ReaderStep(t)
        \/ (CanStartWrite /\ LockWriteCall(t))
        \/ MutexLock(t)
        \/ BeginWriteLoad(t)
        \/ BeginWriteStore(t)
        \/ GuardWrite(t)
        \/ Panic(t)
        \/ EndWrite(t)
        \/ MutexUnlock(t)

FairReadSpec ==
    /\ Init
    /\ [][NextFairRead]_vars
    /\ \A t \in Threads : WF_vars(ReaderStep(t))

\* One thread writes and the others read with no cap on the number of writes:
\* the counter wraps.
NextWrap ==
    \/ LockWriteCall(Writer)
    \/ LockWriteReturns
    \/ GuardWrite(Writer)
    \/ EndWrite(Writer)
    \/ MutexUnlock(Writer)
    \/ \E r \in Readers : ReaderStep(r)

WrapSpec == Init /\ [][NextWrap]_vars

\* A schedule of one writer and one reader under write pressure: the writer
\* writes again and again, the reader is given its second counter load only
\* after the writer has stored to the counter, and the writer's end_write is
\* not scheduled while the reader is between its two counter loads.  Every step is a step
\* of the code and the number of writes is not capped.  The fairness is weak
\* fairness of sub-actions of NextPressure, so every finite run of
\* NextPressure is the start of a behaviour of PressureSpec.
Reader == 2

WriterLoop ==
    \/ (~guard[Writer] /\ LockWriteCall(Writer))
    \/ LockWriteReturns
    \/ (pc[Reader] \notin {"r_copy", "r_seq2"} /\ EndWrite(Writer))
    \/ MutexUnlock(Writer)

ReaderLoop ==
    \/ ReadCall(Reader)
    \/ ReadSeq1(Reader)
    \/ ReadYield(Reader)
    \/ ReadCopy(Reader)

LateSeq2 == seq # seq1[Reader] /\ ReadSeq2(Reader)

NextPressure ==
    \/ WriterLoop
    \/ GuardWrite(Writer)
    \/ ReaderLoop
    \/ LateSeq2

PressureSpec ==
    /\ Init
    /\ [][NextPressure]_vars
    /\ WF_vars(WriterLoop)
    /\ WF_vars(ReaderLoop)
    /\ WF_vars(LateSeq2)

TypeOK ==
    /\ seq \in SeqVals
    /\ data \in T
    /\ mutex \in Threads \cup {NoThread}
    /\ committed \subseteq T
    /\ done \in 0..(SeqMod \div 2 - 1)
    /\ lapped \in [Threads -> BOOLEAN]
    /\ lastSet \in T \cup {NoVal}
    /\ inner \in T \cup {NoVal}

\* ------------------------------------------------------------- claims

InWrite(t) == pc[t] \in AcquirePcs \/ guard[t]

\* C2 (writer mutual exclusion): at most one guard is live, no two threads are
\* between begin_write and end_write at once, and no thread is past the gate in
\* lock_write while another thread's guard is not yet destroyed.
WriterMutualExclusion ==
    /\ Cardinality({t \in Threads : guard[t]}) <= 1
    /\ \A t, u \in Threads : t # u => ~(InWrite(t) /\ InWrite(u))
    /\ \A t \in Threads : InWrite(t) => mutex = t

\* A thread waits in lock_write while another thread's guard is live.
WriterMutualExclusionWitness ==
    \E t, u \in Threads : t # u /\ guard[t] /\ pc[u] = "lw_lock"

\* C3 as stated: try_lock_write returns None iff a write guard is outstanding
\* at the moment of the call.
TryNoneIffGuardOutstanding ==
    \A t \in Threads :
        tryRec[t].res # "na" => (tryRec[t].res = "none" <=> tryRec[t].live)

\* C3 as amended: try_lock_write returns None iff, at the moment of the call,
\* the gate is held: a write guard is outstanding, or a thread that has taken
\* the gate in lock_write/try_lock_write has not yet been handed its guard.
TryNoneIffGateHeld ==
    \A t \in Threads :
        tryRec[t].res # "na" =>
            (tryRec[t].res = "none" <=> (tryRec[t].live \/ tryRec[t].acq))

\* try_lock_write has returned None to a thread while another thread's guard is
\* outstanding.
TryNoneIffGateHeldWitness ==
    \E t, u \in Threads :
        /\ t # u
        /\ pc[t] = "tl_none"
        /\ tryRec[t].res = "none"
        /\ tryRec[t].live
        /\ guard[u]

\* C4 (readers never block or starve a writer), with one writer and the other
\* threads calling read() for ever: whenever the writer waits in lock_write and
\* no guard is outstanding it can take the gate, wherever each reader is; and
\* under fair scheduling of the writer every lock_write call issued with no
\* guard outstanding returns a guard.
WriterNotStarved ==
    /\ []((pc[Writer] = "lw_lock" /\ ~GuardLive) => ENABLED MutexLock(Writer))
    /\ (pc[Writer] = "lw_lock" /\ ~GuardLive) ~> guard[Writer]

\* The writer has been handed a guard between a reader's two counter loads.
WriterNotStarvedWitness ==
    \E r \in Readers :
        /\ guard[Writer]
        /\ pc[r] = "r_seq2"
        /\ seq1[r] # seq
        /\ wlive[r] = "no"

QuiescentSnapshot ==
    \A t \in Threads :
        /\ pc[t] = "r_ret" =>
              /\ ~Odd(seq1[t])
              /\ seq2[t] = seq1[t]
              /\ idx[t] = NWords + 1
              /\ wlive[t] # "open"
        /\ pc[t] = "r_yield" => Odd(seq1[t]) /\ idx[t] = 1
        /\ pc[t] \in {"r_copy", "r_seq2"} => ~Odd(seq1[t])

\* A read() called while a guard was live has returned, after its end_write.
QuiescentSnapshotWitness ==
    \E t \in Threads : pc[t] = "r_ret" /\ wlive[t] = "ended"

\* C7 (guard destruction): whenever the gate is free the counter is even; the
\* gate is never released while the counter is odd; and the counter is made
\* even only by the thread that holds the gate, which keeps it in that step.
GuardDropOrder ==
    /\ [](mutex = NoThread => ~Odd(seq))
    /\ [][(mutex # NoThread /\ mutex' = NoThread) => ~Odd(seq)]_vars
    /\ [][(seq' # seq /\ ~Odd(seq')) =>
             /\ mutex # NoThread
             /\ mutex' = mutex
             /\ pc'[mutex] # pc[mutex]]_vars

\* A guard has been destroyed during unwinding: the counter is even again, the
\* gate free, and a value was committed.
GuardDropOrderWitness ==
    \E t \in Threads : pc[t] = "dead" /\ mutex = NoThread /\ seq >= 2

\* C8 (sequential round trip): a read() with no write in progress at any
\* instant of it returns exactly the value that was committed when it was
\* called: the value passed to new(), or the one the last guard left.
RoundTrip ==
    \A t \in Threads :
        (pc[t] = "r_ret" /\ ~dirty[t]) => window[t] = {result[t]}

\* A read() after two completed writes, alone, has returned the last value.
RoundTripWitness ==
    \E t \in Threads :
        /\ pc[t] = "r_ret"
        /\ ~dirty[t]
        /\ seq = 4
        /\ Cardinality(committed) >= 3

\* The reader fails a pass and starts the next one.
ReadRetries ==
    /\ pc[Reader] \in {"r_seq2", "r_yield"}
    /\ pc'[Reader] = "r_seq1"

\* C9 (no reader liveness under write pressure): there is an execution, fair to
\* both threads, in which the writer keeps beginning and ending writes and one
\* read() call retries for ever: under PressureSpec the read() never returns,
\* it fails a pass infinitely often, and the writer begins and ends a write
\* infinitely often.
ReaderStarves ==
    /\ [](pc[Reader] # "r_ret")
    /\ []<><<ReadRetries>>_vars
    /\ []<><<BeginWriteStore(Writer)>>_vars
    /\ []<><<EndWrite(Writer)>>_vars

\* The read() is still looping after two writes were committed during it.
ReaderStarvesWitness ==
    /\ pc[Reader] = "r_seq1"
    /\ Cardinality(window[Reader]) >= 3

\* C10 (self-deadlock): a read() called by the thread that owns the live guard
\* never returns: it sees an odd counter on every pass, copies nothing, and
\* the guard stays live.
SelfDeadlock ==
    \A t \in Threads :
        /\ guard[t] => pc[t] # "r_ret"
        /\ (guard[t] /\ pc[t] \in ReadPcs) =>
              /\ Odd(seq)
              /\ pc[t] \in {"r_seq1", "r_yield"}
              /\ mutex = t

\* The owner of the live guard is inside read(), yielding.
SelfDeadlockWitness ==
    \E t \in Threads : guard[t] /\ pc[t] = "r_yield"

\* C11 (into_inner returns the last committed value): the value into_inner
\* returned is the value of the cell at the last end_write, or the value last
\* assigned through get_mut if that came later, or the value passed to new()
\* if there was neither.
IntoInnerLastCommitted ==
    inner # NoVal => inner = commit

\* into_inner has returned after two writes through guards committed values
\* and no get_mut followed them.
IntoInnerLastCommittedWitness ==
    /\ inner # NoVal
    /\ done >= 2
    /\ lastSet = NoVal
    /\ Cardinality(committed) >= 3

\* The step is an assignment through get_mut.
GetMutStep == lastSet' # NoVal /\ lastSet' # lastSet

\* C12 (get_mut): an assignment through get_mut happens with the gate free,
\* leaves the gate and the counter as they are, and until the next write
\* begins the assigned value is the value of the cell, the result of every
\* read() that returned, and what into_inner returned.
GetMutFrame ==
    /\ [][GetMutStep => mutex = NoThread /\ UNCHANGED <<seq, mutex>>]_vars
    /\ [](lastSet # NoVal =>
            /\ data = lastSet
            /\ \A t \in Threads : pc[t] = "r_ret" => result[t] = lastSet
            /\ inner \in {NoVal, lastSet})

\* After a write through a guard a value was assigned through get_mut, a read()
\* has returned since and so has into_inner.
GetMutFrameWitness ==
    /\ lastSet # NoVal
    /\ seq >= 2
    /\ inner # NoVal
    /\ \E t \in Threads : result[t] = lastSet /\ lastSet # ZeroVal

\* C13 (counter parity): the counter is 0 after new(), and in every reachable
\* state it is odd if and only if a write is in progress: some thread has run
\* begin_write and its guard's end_write has not run yet.
CounterParity ==
    /\ seq = 0
    /\ [](Odd(seq) <=> WriteOpen)

\* A second write is in progress, the counter is odd, and a reader that saw
\* the odd counter is about to yield.
CounterParityWitness ==
    /\ Odd(seq)
    /\ seq >= 3
    /\ WriteOpen
    /\ \E t \in Threads : pc[t] = "r_yield"

\* The step is thread t's counter store in begin_write.
BeginStep(t) == pc[t] = "bw_store" /\ ~guard[t] /\ guard'[t]

\* The step is the end_write of thread t's guard.
EndStep(t) == guard[t] /\ pc[t] \notin UnlockPcs /\ pc'[t] \in UnlockPcs

\* C14 (two per write): the counter changes only in begin_write's store and
\* in end_write, each time by + 1 modulo 2^SeqBits, so after k completed
\* writes it is 2k modulo 2^SeqBits, plus 1 while a write is in progress.
CounterCountsWrites ==
    /\ [][seq' # seq =>
            /\ seq' = wrapping_add(seq, 1)
            /\ \E t \in Threads : BeginStep(t) \/ EndStep(t)]_vars
    /\ [](seq = (2 * done + (IF WriteOpen THEN 1 ELSE 0)) % SeqMod)

\* MaxWrites writes have completed and every thread is between calls.
CounterCountsWritesWitness ==
    /\ done = MaxWrites
    /\ seq = 2 * MaxWrites
    /\ \A t \in Threads : pc[t] = "idle"

ReadReturns(t) == pc[t] = "r_seq2" /\ pc'[t] = "r_ret"

DataOnlyUnderGuard ==
    /\ [][data' # data =>
            /\ mutex # NoThread
            /\ guard[mutex]
            /\ pc[mutex] \in IdlePcs
            /\ gseq[mutex] = seq
            /\ Odd(seq)
            /\ seq' = seq]_vars
    /\ [](\A t \in Threads : guard[t] => mutex = t)

\* The guard's owner has changed the value while a reader is copying it.
DataOnlyUnderGuardWitness ==
    /\ data # commit
    /\ Odd(seq)
    /\ mutex # NoThread
    /\ \E t \in Threads : pc[t] = "r_copy" /\ idx[t] > 1

\* C18 (captured seq tracks the counter): between begin_write's load and its
\* store the counter is still the loaded value, from the store to end_write
\* the counter equals the guard's captured seq, and what end_write stored is
\* the counter at drop time + 1; no other thread's store falls in between.
GuardSeqTracksCounter ==
    \A t \in Threads :
        /\ pc[t] = "bw_store" => gseq[t] = wrapping_add(seq, 1)
        /\ guard[t] /\ pc[t] \notin UnlockPcs => gseq[t] = seq
        /\ guard[t] /\ pc[t] \in UnlockPcs => seq = wrapping_add(gseq[t], 1)

\* A guard of the second write is live while the other thread waits in
\* lock_write.
GuardSeqTracksCounterWitness ==
    \E t, u \in Threads :
        /\ guard[t]
        /\ pc[t] \notin UnlockPcs
        /\ gseq[t] = 3
        /\ pc[u] = "lw_lock"

\* The step is a step of thread t inside read(), or its call of read().
ReadMoves(t) ==
    \/ pc[t] \in ReadPcs /\ (pc'[t] # pc[t] \/ idx'[t] # idx[t])
    \/ pc[t] \notin ReadPcs /\ pc'[t] = "r_seq1"

\* C19 (read has no effect on shared state): no step of read() changes the
\* counter, the value or the gate, and no step of read() waits for the gate:
\* a thread inside read() can always take its next step.
ReadHasNoEffect ==
    /\ [][\A t \in Threads : ReadMoves(t) => UNCHANGED shared]_vars
    /\ [](\A t \in Threads : pc[t] \in ReadPcs => ENABLED ReaderStep(t))

\* A read() that overlapped a write returned while the other thread holds the
\* gate.
ReadHasNoEffectWitness ==
    \E t \in Threads :
        /\ pc[t] = "r_ret"
        /\ dirty[t]
        /\ mutex \notin {NoThread, t}

\* The step is thread t starting another pass after its second counter load.
ReadRetriesPass(t) == pc[t] = "r_seq2" /\ pc'[t] = "r_seq1"

\* The step is thread t yielding after its first counter load.
ReadYields(t) == pc[t] = "r_seq1" /\ pc'[t] = "r_yield"

\* C20 (read terminates once writers are quiescent): a pass is retried only
\* if the counter was stored to since its first load and yields only if a
\* write is in progress at that load; and with the readers scheduled fairly,
\* if from some point on no write is in progress (every guard was dropped and
\* no new write begins), every pending read() returns.
ReadTerminates ==
    /\ [][\A t \in Threads : ReadRetriesPass(t) => seq # seq1[t]]_vars
    /\ [][\A t \in Threads : ReadYields(t) => Odd(seq) /\ WriteOpen]_vars
    /\ \A t \in Threads :
          <>[](~WriteOpen) => (pc[t] \in ReadPcs ~> pc[t] = "r_ret")

\* A read() called while a guard was live has returned after the last of
\* MaxWrites writes ended and the gate was released.
ReadTerminatesWitness ==
    \E t \in Threads :
        /\ pc[t] = "r_ret"
        /\ wlive[t] = "ended"
        /\ ~WriteOpen
        /\ mutex = NoThread
        /\ done = MaxWrites


============================================================================
